---- MODULE Spec2Model ----
(***************************************************************************)
(* Reactive cleaning robots on a bounded Moore grid                        *)
(* (src/limpieza_modelo.py).  The state is a CleaningModel object: the     *)
(* grid dimensions, the dirt (seen from the cells and from model.agents),  *)
(* each CleaningAgent's cell and move counter, the step counter and the    *)
(* DataCollector's rows.  One action, Step, is one call of                 *)
(* CleaningModel.step(): the two guards, the shuffled activation of every  *)
(* agent, the metrics snapshot and the counter increment.                  *)
(*                                                                         *)
(* The seeded random source is a nondeterministic choice: the sample of    *)
(* dirty cells at construction, the activation order of a tick and the     *)
(* neighbour each moving agent draws.                                      *)
(***************************************************************************)
EXTENDS Integers, Sequences, FiniteSets

\* ------------------------------------------------------------------ bounds
MaxCells == 6
MaxAgents == 2
MaxSteps == 2

\* Configurations of the documented surface: n, width, height > 0,
\* 0 <= dirty_percent <= 100, max_steps >= 0.
ValidN == 1..MaxAgents
ValidShape == {s \in (1..MaxCells) \X (1..MaxCells) : s[1] * s[2] <= MaxCells}
ValidPercent == {0, 50, 100}
ValidMaxSteps == 0..MaxSteps

\* Configurations outside that surface in n, width, height and
\* dirty_percent as well, which the constructor is handed all the same.
AnyN == (0 - 1)..MaxAgents
AnyShape == {s \in (0..MaxCells) \X (0..MaxCells) : s[1] * s[2] <= MaxCells}
AnyPercent == {0 - 50, 0 - 20, 0, 50, 100, 120, 150}
AnyMaxSteps == 0..MaxSteps

VARIABLES
    num_agents,     \* self.num_agents (n)
    width,          \* grid dimension 0
    height,         \* grid dimension 1
    dirty_percent,  \* the constructor's dirty_percent argument
    max_steps,      \* self.max_steps
    constructed,    \* TRUE iff __init__ returned a model
    cellDirt,       \* cells whose contents hold a DirtyAgent
    modelDirt,      \* DirtyAgents still in model.agents, named by their cell
    pos,            \* CleaningAgent -> its cell
    moves,          \* CleaningAgent -> its move counter
    current_step,   \* self.current_step
    datacollector,  \* the rows collected: PercentClean and TotalMoves
    outcome,        \* what the last call did
    log             \* CleaningAgent -> what its activation in the last call of step() did

vars == <<num_agents, width, height, dirty_percent, max_steps, constructed,
          cellDirt, modelDirt, pos, moves, current_step, datacollector,
          outcome, log>>

\* ------------------------------------------------------------------ grid
\* OrthogonalMooreGrid((width, height)): one cell per coordinate pair.
Cells(w, h) == (0..(w - 1)) \X (0..(h - 1))

Abs(i) == IF i < 0 THEN 0 - i ELSE i

\* Mutant of Neighborhood: the grid wrapped at its edges (torus=True).
NeighborhoodTorus(c, w, h) ==
    {d \in Cells(w, h) :
        /\ d # c
        /\ \E dx, dy \in {0 - 1, 0, 1} :
             d[1] = (c[1] + dx) % w /\ d[2] = (c[2] + dy) % h}

\* cell.neighborhood of a bounded (torus=False) Moore grid: the cells at
\* distance 1 in the maximum norm, the cell itself left out.
Neighborhood(c, w, h) ==
    {d \in Cells(w, h) : d # c /\ Abs(d[1] - c[1]) <= 1 /\ Abs(d[2] - c[2]) <= 1}

\* The cell of the start position, self.grid[(0, 0)].
StartCell == <<0, 0>>

\* ------------------------------------------------------------------ metrics
\* model.agents: the DirtyAgents not yet removed and every CleaningAgent.
\* md names the DirtyAgents by their cells, ps maps each CleaningAgent to
\* its cell.
ModelAgents(md, ps) ==
    {[kind |-> "DirtyAgent", id |-> 0, cell |-> c] : c \in md}
    \cup {[kind |-> "CleaningAgent", id |-> a, cell |-> ps[a]] : a \in DOMAIN ps}

RECURSIVE SumMoves(_, _)
\* sum(agent.moves for agent in cleaning_agents)
SumMoves(mv, S) ==
    IF S = {} THEN 0
    ELSE LET a == CHOOSE x \in S : TRUE
         IN mv[a.id] + SumMoves(mv, S \ {a})

\* Mutant of ComputeTotalMoves: the CleaningAgents counted, their moves not
\* summed.
CountCleaners(agents, mv) ==
    Cardinality({a \in agents : a.kind = "CleaningAgent"})

\* compute_total_moves: the sum of agent.moves over the CleaningAgents of
\* model.agents.
ComputeTotalMoves(agents, mv) ==
    SumMoves(mv, {a \in agents : a.kind = "CleaningAgent"})

\* len(dirty_agents) of compute_percent_clean: the DirtyAgents of model.agents.
DirtyCount(agents) == Cardinality({a \in agents : a.kind = "DirtyAgent"})

\* Mutant of ComputePercentClean: the dirty share, 100 * dirty / total_cells.
ComputePercentDirty(agents, w, h) ==
    [num |-> 100 * DirtyCount(agents), den |-> w * h]

\* compute_percent_clean: 100 * (1 - dirty / total_cells), kept exact as the
\* fraction num / den.
ComputePercentClean(agents, w, h) ==
    [num |-> 100 * (w * h - DirtyCount(agents)), den |-> w * h]

\* Mutant of PercentCleanIs100: the percentage compared with the fraction 1.
PercentCleanIsOne(agents, w, h) ==
    ComputePercentClean(agents, w, h).num = ComputePercentClean(agents, w, h).den

\* compute_percent_clean(self) == 100
PercentCleanIs100(agents, w, h) ==
    ComputePercentClean(agents, w, h).num = 100 * ComputePercentClean(agents, w, h).den

\* datacollector.collect: one row of the two model reporters.
Collect(agents, mv, w, h) ==
    [PercentClean |-> ComputePercentClean(agents, w, h),
     TotalMoves |-> ComputeTotalMoves(agents, mv)]

\* ------------------------------------------------------------------ construction
\* int(x / 100): Python's int() truncates towards zero.
TruncDiv100(x) == IF x >= 0 THEN x \div 100 ELSE 0 - ((0 - x) \div 100)

\* Mutant of NumDirty: at least one cell is made dirty.
NumDirtyAtLeastOne(w, h, dp) ==
    IF TruncDiv100(w * h * dp) < 1 THEN 1 ELSE TruncDiv100(w * h * dp)

\* Mutant of NumDirty: the product rounded up, not truncated.
NumDirtyCeil(w, h, dp) == 0 - TruncDiv100(0 - (w * h * dp + 99))

\* num_dirty = int(len(cells) * dirty_percent / 100)
NumDirty(w, h, dp) == TruncDiv100(w * h * dp)

\* The grid rejects a dimension that is not positive.
GridRaises(w, h) == w <= 0 \/ h <= 0

\* random.sample(cells, k) raises for k < 0 and for k > len(cells).
SampleRaises(w, h, dp) == NumDirty(w, h, dp) < 0 \/ NumDirty(w, h, dp) > w * h

\* random.sample(cells, k): every k-subset of the cells is a possible draw.
Samples(w, h, dp) ==
    {S \in SUBSET Cells(w, h) : Cardinality(S) = NumDirty(w, h, dp)}

\* Mutant of Cleaners: one agent more than asked for.
CleanersOneMore(n) == 1..(n + 1)

\* The CleaningAgents create_agents makes: range(n) is empty for n <= 0.
Cleaners(n) == 1..n

\* CleaningModel.__init__ on (n, w, h, dp, ms).
Construct(n, w, h, dp, ms) ==
    /\ num_agents = n
    /\ width = w
    /\ height = h
    /\ dirty_percent = dp
    /\ max_steps = ms
    /\ log = [a \in Cleaners(n) |-> "idle"]
    /\ IF GridRaises(w, h) \/ SampleRaises(w, h, dp)
       THEN /\ constructed = FALSE
            /\ outcome = "ValueError"
            /\ cellDirt = {}
            /\ modelDirt = {}
            /\ pos = <<>>
            /\ moves = <<>>
            /\ current_step = 0
            /\ datacollector = <<>>
       ELSE /\ constructed = TRUE
            /\ outcome = "constructed"
            /\ \E S \in Samples(w, h, dp) :
                 /\ cellDirt = S
                 /\ modelDirt = S
                 /\ datacollector =
                      <<Collect(ModelAgents(S, [a \in Cleaners(n) |-> StartCell]),
                                [a \in Cleaners(n) |-> 0], w, h)>>
            /\ pos = [a \in Cleaners(n) |-> StartCell]
            /\ moves = [a \in Cleaners(n) |-> 0]
            /\ current_step = 0

Init ==
    \E n \in ValidN, s \in ValidShape, dp \in ValidPercent, ms \in ValidMaxSteps :
        Construct(n, s[1], s[2], dp, ms)

InitAnyConfig ==
    \E n \in AnyN, s \in AnyShape, dp \in AnyPercent, ms \in AnyMaxSteps :
        Construct(n, s[1], s[2], dp, ms)

\* ------------------------------------------------------------------ agents
\* The part of the model the activations of one tick read and write;
\* `raised` is set once an activation raises.
TickState == [cellDirt |-> cellDirt, modelDirt |-> modelDirt, pos |-> pos,
              moves |-> moves, log |-> [a \in DOMAIN pos |-> "idle"],
              raised |-> FALSE]

\* self.cell.neighborhood.select_random_cell(): random.choice over the
\* neighbourhood, every neighbour a possible draw.
SelectRandomCell(c, w, h) == Neighborhood(c, w, h)

\* Mutant of MoveTo: the agent also cleans the cell it arrives at.
MoveToCleaning(st, a, new_cell) ==
    [st EXCEPT !.pos[a] = new_cell, !.moves[a] = @ + 1, !.log[a] = "move",
               !.cellDirt = @ \ {new_cell}, !.modelDirt = @ \ {new_cell}]

\* Mutant of MoveTo: the move made but not counted.
MoveToUncounted(st, a, new_cell) ==
    [st EXCEPT !.pos[a] = new_cell, !.log[a] = "move"]

\* The agent's state once it has moved to new_cell.
MoveTo(st, a, new_cell) ==
    [st EXCEPT !.pos[a] = new_cell, !.moves[a] = @ + 1, !.log[a] = "move"]

\* CleaningAgent.move of agent a: the states it may end in.  random.choice
\* raises IndexError on an empty neighbourhood, before the test of new_cell;
\* a cell it returns is always truthy.
Move(st, a, w, h) ==
    IF SelectRandomCell(st.pos[a], w, h) = {}
    THEN {[st EXCEPT !.raised = TRUE]}
    ELSE {MoveTo(st, a, new_cell) : new_cell \in SelectRandomCell(st.pos[a], w, h)}

\* The DirtyAgents among the contents of cell c, named by their cell.
DirtIn(cd, c) == cd \cap {c}

\* Mutant of Clean: the dirt leaves the cell but stays in model.agents.
CleanCellOnly(st, a) ==
    [st EXCEPT !.cellDirt = @ \ (@ \cap {st.pos[a]}), !.log[a] = "clean"]

\* Mutant of Clean: a cleaning counted as a move.
CleanCounted(st, a) ==
    [st EXCEPT !.cellDirt = @ \ (@ \cap {st.pos[a]}),
               !.modelDirt = @ \ (st.cellDirt \cap {st.pos[a]}),
               !.moves[a] = @ + 1,
               !.log[a] = "clean"]

\* The branch of CleaningAgent.step taken when the cell holds dirt: every
\* DirtyAgent of the cell leaves the cell and, if still there, model.agents.
Clean(st, a) ==
    [st EXCEPT !.cellDirt = @ \ DirtIn(st.cellDirt, st.pos[a]),
               !.modelDirt = @ \ DirtIn(st.cellDirt, st.pos[a]),
               !.log[a] = "clean"]

\* Mutant of AgentStep: the agent decides on the dirt as it was when the
\* tick began, a snapshot, not on the cell's contents now.
AgentStepSnapshot(st, a, w, h) ==
    IF st.pos[a] \in cellDirt
    THEN {[st EXCEPT !.cellDirt = @ \ {st.pos[a]},
                     !.modelDirt = @ \ {st.pos[a]},
                     !.log[a] = "clean"]}
    ELSE {[st EXCEPT !.pos[a] = new_cell, !.moves[a] = @ + 1, !.log[a] = "move"]
          : new_cell \in {d \in Cells(w, h) : d # st.pos[a]
                                              /\ d[1] - st.pos[a][1] \in {0 - 1, 0, 1}
                                              /\ d[2] - st.pos[a][2] \in {0 - 1, 0, 1}}}

\* CleaningAgent.step of agent a: the states it may end in.
AgentStep(st, a, w, h) ==
    IF DirtIn(st.cellDirt, st.pos[a]) # {}
    THEN {Clean(st, a)}
    ELSE Move(st, a, w, h)

\* ------------------------------------------------------------------ scheduling
RECURSIVE Perms(_)
\* random.shuffle of the agents: every order is a possible draw.
Perms(S) ==
    IF S = {} THEN {<<>>}
    ELSE UNION {{<<a>> \o p : p \in Perms(S \ {a})} : a \in S}

RECURSIVE DoEach(_, _, _, _)
\* The loop of shuffle_do over the CleaningAgents in `order`, from each state
\* of S; an exception ends the iteration where it is raised.
DoEach(S, order, w, h) ==
    IF order = <<>> THEN S
    ELSE DoEach(UNION {IF st.raised THEN {st} ELSE AgentStep(st, Head(order), w, h)
                       : st \in S},
                Tail(order), w, h)

\* agents.shuffle_do("step"): the states the model may be in after it.  The
\* DirtyAgents of the shuffled collection run the inherited empty step, so
\* only the order of the CleaningAgents tells.
ShuffleDo(st, w, h) ==
    UNION {DoEach({st}, order, w, h) : order \in Perms(DOMAIN st.pos)}

\* ------------------------------------------------------------------ step()
\* Mutant of BudgetSpent: the budget test off by one (> for >=).
BudgetSpentStrict(cs, ms) == cs > ms

\* The first guard of step(): self.current_step >= self.max_steps.
BudgetSpent(cs, ms) == cs >= ms

\* The two guards of step().
Guarded ==
    \/ BudgetSpent(current_step, max_steps)
    \/ PercentCleanIs100(ModelAgents(modelDirt, pos), width, height)

\* Mutant of NextStep: the counter advanced twice per tick.
NextStepTwice(cs) == cs + 2

\* self.current_step += 1
NextStep(cs) == cs + 1

\* step() returning at one of its guards.
StepGuarded ==
    /\ constructed
    /\ Guarded
    /\ outcome' = "noop"
    /\ log' = [a \in DOMAIN pos |-> "idle"]
    /\ UNCHANGED <<cellDirt, modelDirt, pos, moves, current_step, datacollector>>
    /\ UNCHANGED <<num_agents, width, height, dirty_percent, max_steps, constructed>>

\* step() past its guards: the activations, then the snapshot and the
\* increment, both skipped when an activation raises.
StepTick ==
    /\ constructed
    /\ ~Guarded
    /\ \E st \in ShuffleDo(TickState, width, height) :
         /\ cellDirt' = st.cellDirt
         /\ modelDirt' = st.modelDirt
         /\ pos' = st.pos
         /\ moves' = st.moves
         /\ log' = st.log
         /\ IF st.raised
            THEN /\ outcome' = "IndexError"
                 /\ UNCHANGED <<current_step, datacollector>>
            ELSE /\ outcome' = "ticked"
                 /\ datacollector' =
                      Append(datacollector,
                             Collect(ModelAgents(st.modelDirt, st.pos), st.moves,
                                     width, height))
                 /\ current_step' = NextStep(current_step)
    /\ UNCHANGED <<num_agents, width, height, dirty_percent, max_steps, constructed>>

\* CleaningModel.step
Step == StepGuarded \/ StepTick

Next == Step

Spec == Init /\ [][Next]_vars

\* Any configuration the constructor can be handed.
SpecAnyConfig == InitAnyConfig /\ [][Next]_vars

\* A further call of step() would change nothing: no model was built, or the
\* last call already returned at a guard that still holds.
Quiescent == ~constructed \/ (Guarded /\ outcome = "noop")

\* step() is called again and again: weak fairness of Step.  Every step of
\* Next that changes the state is a Step, and Step can change the state
\* exactly where Quiescent fails, so WF_vars(Step) is written out with the
\* state predicate in place of ENABLED <<Step>>_vars.
StepFairness == []<>Quiescent \/ []<><<TRUE>>_vars

FairSpec == Init /\ [][Next]_vars /\ StepFairness

\* ------------------------------------------------------------------ properties
\* Step can change the state exactly where Quiescent fails (the reading of
\* ENABLED that StepFairness rests on).
StepEnabledWhereNotQuiescent == (ENABLED <<Step>>_vars) <=> ~Quiescent

\* The model's state as the metrics functions see it.
TotalMoves == ComputeTotalMoves(ModelAgents(modelDirt, pos), moves)
PercentClean == ComputePercentClean(ModelAgents(modelDirt, pos), width, height)
IsAllClean == PercentClean.num = 100 * PercentClean.den

\* TERMINATED: the step budget is spent or no dirt remains.
Terminated == current_step >= max_steps \/ Cardinality(modelDirt) = 0

\* C1: a call of step() in a terminated state (current_step >= max_steps or
\* no dirt left) changes neither the step counter, nor the dirt, nor any
\* agent's position or move counter, however often it is repeated.
C1_TerminatedStepIsNoOp ==
    [][Terminated =>
         /\ current_step' = current_step
         /\ modelDirt' = modelDirt
         /\ cellDirt' = cellDirt
         /\ pos' = pos
         /\ moves' = moves]_vars

\* C1 witness: step() was called in a terminated state that ticks led to.
C1_Witness == outcome = "noop" /\ Terminated /\ current_step > 0

\* C2: in every state, after construction and after any calls of step(),
\* 0 <= current_step <= max_steps.
C2_StepWithinBudget == 0 <= current_step /\ current_step <= max_steps

\* C2 witness: a tick has just taken the counter to a positive max_steps.
C2_Witness == outcome = "ticked" /\ current_step = max_steps /\ max_steps > 0

\* C3: a call of step() never adds dirt (the dirty cells after it are among
\* those before it, in the cells and in model.agents), and every cell that
\* lost its dirt is the cell of an agent whose activation cleaned.
C3_DirtOnlyCleaned ==
    [][/\ modelDirt' \subseteq modelDirt
       /\ cellDirt' \subseteq cellDirt
       /\ \A c \in (modelDirt \ modelDirt') \cup (cellDirt \ cellDirt') :
            \E a \in DOMAIN pos : pos[a] = c /\ log'[a] = "clean"]_vars

\* C3 witness: some dirt has been cleaned and some is left.
C3_Witness ==
    /\ constructed
    /\ Cardinality(modelDirt) < NumDirty(width, height, dirty_percent)
    /\ modelDirt # {}

RECURSIVE SumOfCounters(_)
\* moves[1] + ... + moves[k]
SumOfCounters(k) == IF k <= 0 THEN 0 ELSE moves[k] + SumOfCounters(k - 1)

\* C4: compute_total_moves(model) is always the sum of the move counters of
\* the n cleaning agents; each counter is 0 after construction and no call of
\* step() decreases one.
C4_TotalMovesIsSum ==
    /\ \A a \in DOMAIN moves : moves[a] = 0
    /\ [](TotalMoves = SumOfCounters(num_agents))
    /\ [][\A a \in DOMAIN moves : moves'[a] >= moves[a]]_vars

\* C4 witness: two agents have moved, one of them more often than the other.
C4_Witness ==
    \E a, b \in DOMAIN moves : moves[a] > moves[b] /\ moves[b] > 0

\* A configuration the constructor is specified to reject.
InvalidConfiguration ==
    \/ num_agents <= 0
    \/ width <= 0
    \/ height <= 0
    \/ dirty_percent < 0
    \/ dirty_percent > 100

\* C6: construction with n <= 0, width <= 0, height <= 0 or dirty_percent
\* outside [0,100] fails with InvalidConfigurationError and yields no model.
C6_InvalidConfigurationRejected ==
    InvalidConfiguration =>
        /\ ~constructed
        /\ outcome = "InvalidConfigurationError"

\* C7: no call of step() on a validly configured model raises; an agent
\* activated on a clean cell with no neighbour stays where it is.
C7_StepNeverRaises ==
    constructed => outcome \in {"constructed", "noop", "ticked"}

\* The terminal condition as the data model states it.
TerminatedExactly == current_step = max_steps \/ Cardinality(modelDirt) = 0

\* C8: when step() is called again and again the model reaches a state with
\* current_step = max_steps or no dirt left, and stays in such states for ever.
C8_EventuallyTerminated ==
    /\ <>TerminatedExactly
    /\ [][TerminatedExactly => TerminatedExactly']_vars

\* C8 witness: the budget ran out with dirt left, after ticks.
C8_Witness ==
    /\ current_step = max_steps
    /\ max_steps > 0
    /\ modelDirt # {}
    /\ outcome = "noop"

\* C9: a model built with dirty_percent = 0 is terminated from the start:
\* percent_clean is 100, current_step and total_moves stay 0, no agent leaves
\* the start cell and every call of step() returns at its guard.
C9_ZeroPercentNeverStarts ==
    dirty_percent = 0 =>
        /\ IsAllClean
        /\ current_step = 0
        /\ TotalMoves = 0
        /\ \A a \in DOMAIN pos : pos[a] = StartCell /\ moves[a] = 0
        /\ outcome \in {"constructed", "noop"}
        /\ Len(datacollector) = 1

\* C9 witness: step() was called on such a model with a budget left and
\* room to move.
C9_Witness ==
    /\ dirty_percent = 0
    /\ outcome = "noop"
    /\ max_steps > 0
    /\ width * height > 1

\* The 1x1 grid with one agent, all dirty, and at least one step allowed.
OneCellOneAgent ==
    /\ width = 1
    /\ height = 1
    /\ num_agents = 1
    /\ dirty_percent = 100
    /\ max_steps >= 1

\* C10: on a dirty 1x1 grid with one agent and max_steps >= 1 the first call
\* of step() cleans the grid (percent_clean 100, current_step 1, total_moves
\* 0) and every later call changes nothing.
C10_OneCellCleanedInOneTick ==
    OneCellOneAgent =>
        \/ /\ outcome = "constructed"
           /\ current_step = 0
           /\ modelDirt = {StartCell}
           /\ TotalMoves = 0
        \/ /\ outcome \in {"ticked", "noop"}
           /\ current_step = 1
           /\ IsAllClean
           /\ cellDirt = {}
           /\ TotalMoves = 0
           /\ pos[1] = StartCell

\* C10 witness: a later call of step() on the cleaned 1x1 grid, budget left.
C10_Witness ==
    /\ OneCellOneAgent
    /\ outcome = "noop"
    /\ current_step = 1
    /\ max_steps > 1

\* C11: after every call of step() that passed the guards, each of the n
\* cleaning agents made at construction is still there and was activated
\* (it cleaned or it moved), none skipped.
C11_EveryAgentActivated ==
    outcome \in {"ticked", "IndexError"} =>
        /\ DOMAIN pos = 1..num_agents
        /\ DOMAIN log = 1..num_agents
        /\ \A a \in 1..num_agents : log[a] \in {"clean", "move"}

\* C12: right after construction the dirty cells are exactly
\* floor(width * height * dirty_percent / 100) cells of the grid, each
\* holding one dirt that model.agents holds too, and the first snapshot
\* counts them.
C12_InitialDirtIsFloor ==
    outcome = "constructed" =>
        /\ Cardinality(cellDirt) = (width * height * dirty_percent) \div 100
        /\ cellDirt \subseteq Cells(width, height)
        /\ modelDirt = cellDirt
        /\ DirtyCount(ModelAgents(modelDirt, pos)) = Cardinality(cellDirt)

\* C12 witness: a construction where the floor rounds down and leaves dirt.
C12_Witness ==
    /\ outcome = "constructed"
    /\ (width * height * dirty_percent) % 100 # 0
    /\ cellDirt # {}
    /\ cellDirt # Cells(width, height)

\* C13: the dirty count lies in 0..total_cells, so percent_clean =
\* 100 * (1 - dirty_count / total_cells) lies in [0,100]; it is 100 exactly
\* when no cell holds dirt.
C13_PercentCleanInRange ==
    constructed =>
        /\ 0 <= Cardinality(modelDirt)
        /\ Cardinality(modelDirt) <= width * height
        /\ PercentClean.den = width * height
        /\ PercentClean.num = 100 * (width * height - Cardinality(modelDirt))
        /\ 0 <= PercentClean.num
        /\ PercentClean.num <= 100 * PercentClean.den
        /\ IsAllClean <=> cellDirt = {}

\* C13 witness: ticks have left the grid partly clean, strictly between the
\* percentage it started with and 100.
C13_Witness ==
    /\ outcome = "ticked"
    /\ 0 < PercentClean.num
    /\ PercentClean.num < 100 * PercentClean.den
    /\ Cardinality(modelDirt) < NumDirty(width, height, dirty_percent)

\* The agents whose activation in the call just made cleaned.
Cleaned(lg) == {a \in DOMAIN lg : lg[a] = "clean"}

\* C14: an agent activated on a dirty cell cleans it and does not move: the
\* cell was dirty and is clean afterwards, the agent's position and move
\* counter are as before, and the dirty count drops by one per such
\* activation; an agent that moved instead left a cell without dirt.
C14_CleaningAgentStays ==
    [][/\ \A a \in Cleaned(log') :
            /\ pos[a] \in cellDirt
            /\ pos[a] \notin cellDirt'
            /\ pos[a] \notin modelDirt'
            /\ pos'[a] = pos[a]
            /\ moves'[a] = moves[a]
       /\ Cardinality(modelDirt) - Cardinality(modelDirt') = Cardinality(Cleaned(log'))
       /\ \A a \in DOMAIN log' : log'[a] = "move" => pos[a] \notin cellDirt']_vars

\* C14 witness: an agent that had moved before has now cleaned the cell it
\* stands on.
C14_Witness ==
    \E a \in DOMAIN pos : log[a] = "clean" /\ moves[a] > 0 /\ pos[a] # StartCell

\* C15: an agent activated on a clean cell of a grid with more than one cell
\* moves: its new cell is in the grid, is not the old one and is at most 1
\* away in each coordinate, its counter grows by exactly 1, and moves alone
\* leave the dirt as it was; other agents in the target cell do not matter.
C15_MoveToMooreNeighbour ==
    [][/\ \A a \in DOMAIN log' : log'[a] = "move" =>
            /\ pos'[a] \in (0..(width - 1)) \X (0..(height - 1))
            /\ pos'[a] # pos[a]
            /\ Abs(pos'[a][1] - pos[a][1]) <= 1
            /\ Abs(pos'[a][2] - pos[a][2]) <= 1
            /\ moves'[a] = moves[a] + 1
       /\ (width * height > 1 /\ outcome' = "ticked") =>
            \A a \in DOMAIN pos : pos[a] \notin cellDirt => log'[a] = "move"
       /\ Cleaned(log') = {} => (modelDirt' = modelDirt /\ cellDirt' = cellDirt)]_vars

\* C15 witness: on a grid at least 3 wide an agent has moved into a cell
\* away from the start where another agent stood and cleaned.
C15_Witness ==
    /\ width >= 3
    /\ \E a, b \in DOMAIN pos :
         /\ a # b
         /\ log[a] = "move"
         /\ log[b] = "clean"
         /\ pos[a] = pos[b]
         /\ pos[a] # StartCell

\* The agents standing on cell c.
Occupants(c) == {a \in DOMAIN pos : pos[a] = c}

\* The dirty cells that two or more agents stand on.
SharedDirtyCells == {c \in cellDirt : Cardinality(Occupants(c)) >= 2}

\* The agent of cell c that comes first in the activation order.
FirstAt(order, c) ==
    order[CHOOSE i \in 1..Len(order) :
            /\ pos[order[i]] = c
            /\ \A j \in 1..(i - 1) : pos[order[j]] # c]

\* C16: the dirt is not snapshotted per tick.  On a grid of more than one
\* cell, whatever the activation order of a tick, of the agents that share a
\* dirty cell the one activated first cleans it and stays, and each later
\* one finds it clean and moves away; so in every call of step() such a cell
\* is cleaned by exactly one activation.
C16_FirstCleansOthersMove ==
    /\ []((constructed /\ ~Terminated /\ width * height > 1) =>
            \A order \in Perms(DOMAIN pos) :
              \A st \in DoEach({TickState}, order, width, height) :
                \A c \in SharedDirtyCells :
                  /\ c \notin st.cellDirt
                  /\ \A a \in Occupants(c) :
                       IF a = FirstAt(order, c)
                       THEN st.log[a] = "clean" /\ st.pos[a] = c
                       ELSE st.log[a] = "move" /\ st.pos[a] # c)
    /\ [][(width * height > 1 /\ outcome' = "ticked") =>
            \A c \in SharedDirtyCells :
              /\ Cardinality(Occupants(c) \cap Cleaned(log')) = 1
              /\ \A a \in Occupants(c) \ Cleaned(log') : log'[a] = "move"]_vars

\* C16 witness: in the first tick, from the shared dirty start cell, one
\* agent cleaned and another moved away.
C16_Witness ==
    /\ current_step = 1
    /\ outcome = "ticked"
    /\ \E a, b \in DOMAIN pos :
         /\ log[a] = "clean"
         /\ pos[a] = StartCell
         /\ log[b] = "move"
         /\ pos[b] # StartCell

\* C17: right after construction there are exactly n cleaning agents, all
\* at cell (0,0), each with move counter 0, and current_step is 0.
C17_AgentsStartAtOrigin ==
    outcome = "constructed" =>
        /\ DOMAIN pos = 1..num_agents
        /\ DOMAIN moves = 1..num_agents
        /\ Cardinality({a \in ModelAgents(modelDirt, pos) : a.kind = "CleaningAgent"})
             = num_agents
        /\ \A a \in 1..num_agents : pos[a] = <<0, 0>> /\ moves[a] = 0
        /\ current_step = 0

\* C17 witness: two agents just built on a grid with room to move.
C17_Witness ==
    /\ outcome = "constructed"
    /\ num_agents = 2
    /\ width * height > 1

\* C18: the snapshots collected always number current_step + 1: one from
\* construction, one more with each increment of current_step (taken after
\* the activations, so it shows the state the tick left), none from a call
\* that returns at a guard.
C18_SnapshotPerStep ==
    /\ [](constructed => Len(datacollector) = current_step + 1)
    /\ [][/\ outcome' = "ticked" =>
               /\ current_step' = current_step + 1
               /\ Len(datacollector') = Len(datacollector) + 1
               /\ \A i \in 1..Len(datacollector) : datacollector'[i] = datacollector[i]
               /\ datacollector'[Len(datacollector')].TotalMoves = SumOfCounters(num_agents)'
               /\ datacollector'[Len(datacollector')].PercentClean.num
                    = 100 * (width * height - Cardinality(modelDirt'))
          /\ outcome' = "noop" =>
               /\ current_step' = current_step
               /\ datacollector' = datacollector
          /\ Len(datacollector') - Len(datacollector) = current_step' - current_step]_vars

\* C18 witness: snapshots of construction and of two ticks, then a call
\* that returned at a guard.
C18_Witness ==
    /\ outcome = "noop"
    /\ current_step = 2
    /\ Len(datacollector) = 3
    /\ datacollector[3].TotalMoves > datacollector[2].TotalMoves

\* C19: on a grid with more than one cell every activation cleans one dirty
\* cell or makes one move, so total_moves + (initial dirty count - dirty
\* count) = n * current_step in every state.
C19_ActivationsAccounted ==
    (constructed /\ width * height > 1) =>
        TotalMoves + (((width * height * dirty_percent) \div 100) - Cardinality(modelDirt))
          = num_agents * current_step

\* C19 witness: after two ticks of two agents, cleanings and moves both made.
C19_Witness ==
    /\ num_agents = 2
    /\ current_step = 2
    /\ TotalMoves > 0
    /\ Cardinality(modelDirt) < (width * height * dirty_percent) \div 100

\* C20: the cells holding a DirtyAgent are exactly the cells of the
\* DirtyAgents in model.agents, and the cell of an agent that has just
\* cleaned holds no dirt.
C20_DirtViewsAgree ==
    /\ cellDirt = modelDirt
    /\ {a.cell : a \in {x \in ModelAgents(modelDirt, pos) : x.kind = "DirtyAgent"}}
         = cellDirt
    /\ \A a \in DOMAIN log : log[a] = "clean" => pos[a] \notin cellDirt

\* C20 witness: an agent has cleaned its cell and dirt is left elsewhere.
C20_Witness ==
    /\ \E a \in DOMAIN log : log[a] = "clean"
    /\ cellDirt # {}

====
